---- MODULE Spec2Model ----
(***************************************************************************)
(* hquant_py: the Python boundary layer over the native hquant engine.     *)
(*                                                                         *)
(* The wrapper classes of api.py (ctypes strategy) and native.py (adapter  *)
(* over the extension module hquant_py_native), and the package's backend  *)
(* selection in __init__.py, are modelled from the source.  The native     *)
(* engine itself (ring buffer, signal queue, backtest) is not part of the  *)
(* Python package: the Engine* and Ext* operators model it from the        *)
(* specification's sections 4.3, 4.4, 4.5 and 6.                           *)
(***************************************************************************)
EXTENDS Integers, Sequences, FiniteSets, TLC

VARIABLES
    env,      \* the installation: is hquant_py_native importable, does the shared library load
    pkg,      \* which module the package bound HQuant/FuturesBacktest from
    hq,       \* the HQuant wrapper object
    bt,       \* the FuturesBacktest wrapper object
    eng,      \* native engine state behind the HQuant handle
    nbt,      \* native backtest state behind the FuturesBacktest handle
    poll,     \* position of the caller inside HQuant.poll_signals
    last,     \* the last wrapper call: its name, input, exception, native calls, result
    crashed,  \* the process died inside a native call that was handed a NULL handle
    hist      \* history: bars as the engine holds them, signals produced and delivered

vars == <<env, pkg, hq, bt, eng, nbt, poll, last, crashed, hist>>

(***************************************************************************)
(* Bounds of the model.                                                    *)
(***************************************************************************)
MaxCap == 3
MaxPush == 5
MaxSignals == 3
MaxCleanup == 2
MaxApply == 2
MaxTag == 4
MaxIds == 1

Closes == {1, 2}
Capacities == 0..MaxCap
RawTags == 0..MaxTag
Leverages == {0, 1}
Prices == {1}
ResultPrices == {1, 2}

Min(a, b) == IF a < b THEN a ELSE b

(***************************************************************************)
(* Python values.                                                          *)
(***************************************************************************)
\* A wrapper object's _ptr attribute: absent, None (ctypes gives None for a
\* NULL c_void_p result), or the address the native constructor returned.
PtrUnset == "unset"
PtrNone == "None"

\* What ctypes passes for a c_void_p argument: None becomes NULL.
CPtr(p) == IF p = PtrNone THEN "NULL" ELSE p

Call(fn, p, a) == [fn |-> fn, ptr |-> p, arg |-> a]

NoObject == [st |-> "none", backend |-> "none", via |-> "none", lib |-> FALSE,
             ptr |-> PtrUnset, held |-> FALSE, err |-> "none", cleanups |-> 0]

Done(op, arg, err, calls, out) ==
    [op |-> op, arg |-> arg, err |-> err, calls |-> calls, out |-> out]

(***************************************************************************)
(* The native engine, modelled from the specification (sections 3, 4.1,    *)
(* 4.4, 4.5, 6): handle construction and release.                          *)
(***************************************************************************)
NoEngine ==
    [alive |-> FALSE, freeCalls |-> 0, cap |-> 0, buf |-> <<>>, len |-> 0, head |-> 0,
     queue |-> <<>>, strategies |-> 0, indicators |-> 0, emitted |-> 0]

NoBacktest == [alive |-> FALSE, freeCalls |-> 0, applied |-> <<>>, mark |-> 0]

\* create(capacity) -> handle|null: null for an invalid capacity or when
\* resources are exhausted.
EngineNewIsNull(cap, exhausted) == cap = 0 \/ exhausted

EngineNew(cap) ==
    [NoEngine EXCEPT !.alive = TRUE, !.cap = cap, !.buf = [i \in 1..cap |-> 0]]

\* backtest_new(Params) -> handle|null: null when the configuration is
\* rejected (non-positive leverage).
BacktestNewIsNull(leverage) == leverage <= 0

BacktestNew == [NoBacktest EXCEPT !.alive = TRUE]

\* free(handle): one more release of the handle.
EngineFree(e) == [e EXCEPT !.alive = FALSE, !.freeCalls = @ + 1]

(***************************************************************************)
(* __init__.py: the package binds HQuant and FuturesBacktest once, at      *)
(* import.  `from .native import ...` runs native.py's module body, which  *)
(* imports typing, numpy and .api only: hquant_py_native is imported       *)
(* inside the constructors (native.py lines 19 and 73), so the module      *)
(* body does not raise when the extension is absent.                       *)
(***************************************************************************)
NativeModuleBodyRaises(e) == FALSE

SelectBackend(e) == IF NativeModuleBodyRaises(e) THEN "ctypes" ELSE "native"

ImportPackage ==
    /\ pkg = "unimported"
    /\ ~crashed
    /\ pkg' = SelectBackend(env)
    /\ UNCHANGED <<env, hq, bt, eng, nbt, poll, last, crashed, hist>>

(***************************************************************************)
(* Library resolution (api.py 79-95).  sys.platform is a sequence of       *)
(* characters; a path is opaque; an optional path is <<>> for None and     *)
(* <<p>> for the string p.                                                 *)
(***************************************************************************)
PlatDarwin == <<"d", "a", "r", "w", "i", "n">>
PlatLinux == <<"l", "i", "n", "u", "x">>
PlatWin32 == <<"w", "i", "n", "3", "2">>

\* str.startswith
StartsWith(str, prefix) ==
    /\ Len(str) >= Len(prefix)
    /\ SubSeq(str, 1, Len(prefix)) = prefix

\* api.py 79-86: the file name, or the RuntimeError of line 86.
_default_lib_name_fallback(platform) ==
    IF platform = PlatDarwin THEN [err |-> "none", name |-> "libhquant_rs.dylib"]
    ELSE IF platform = PlatWin32 THEN [err |-> "none", name |-> "hquant_rs.dll"]
    ELSE [err |-> "none", name |-> "libhquant_rs.so"]
_default_lib_name(platform) ==
    IF platform = PlatDarwin THEN [err |-> "none", name |-> "libhquant_rs.dylib"]
    ELSE IF StartsWith(platform, PlatLinux) THEN [err |-> "none", name |-> "libhquant_rs.so"]
    ELSE IF platform = PlatWin32 THEN [err |-> "none", name |-> "hquant_rs.dll"]
    ELSE [err |-> "RuntimeError", name |-> ""]

\* `not path` for an optional string.
Falsy(path) == path = <<>> \/ path = <<"">>

\* api.py 95: ctypes.CDLL(path); the load itself can fail.
CDLL(name, e) ==
    [err |-> IF e.lib = "noload" THEN "OSError" ELSE "none",
     calls |-> <<Call("CDLL", "-", <<name>>)>>]

\* api.py 89-95
_load_lib(path, e) ==
    LET path1 == IF path = <<>> THEN e.HQUANT_RS_LIB ELSE path
    IN  IF Falsy(path1)
        THEN LET d == _default_lib_name(e.platform)
             IN  IF d.err # "none" THEN [err |-> d.err, calls |-> <<>>]
                 ELSE CDLL(d.name, e)
        ELSE CDLL(path1[1], e)

LoadLib(path) ==
    /\ LET r == _load_lib(path, env)
       IN  last' = Done("_load_lib", <<path>>, r.err, r.calls, <<>>)
    /\ UNCHANGED <<env, pkg, hq, bt, eng, nbt, poll, crashed, hist>>

(***************************************************************************)
(* Construction (api.py 99-104 and 279-291, native.py 18-21 and 63-82).    *)
(***************************************************************************)
\* `if not self._ptr: raise ...`
NewFailed_unchecked(p) == FALSE
NewFailed(p) == p = PtrNone

\* The ctypes constructor: _load_lib, _bind, the native constructor, the
\* null check.  `handle` is the address a successful native call returns,
\* `isNull` whether it returned NULL, `nullErr` the exception of the check.
CtypesInit(via, handle, isNull, nullErr) ==
    LET loaded == env.lib # "noload"
        bound  == env.lib = "ok"
        p      == IF ~bound THEN PtrUnset ELSE IF isNull THEN PtrNone ELSE handle
        err    == IF ~loaded THEN "OSError"
                  ELSE IF ~bound THEN "AttributeError"
                  ELSE IF NewFailed(p) THEN nullErr
                  ELSE "none"
    IN  [st |-> IF err = "none" THEN "live" ELSE "failed",
         backend |-> "ctypes", via |-> via, lib |-> loaded, ptr |-> p,
         held |-> err = "none", err |-> err, cleanups |-> 0]

\* The adapter constructor: import hquant_py_native, then build the
\* extension object, which raises when the engine rejects the arguments.
NativeInit(via, rejected) ==
    LET err == IF ~env.ext THEN "ImportError"
               ELSE IF rejected THEN "ExtensionError"
               ELSE "none"
    IN  [st |-> IF err = "none" THEN "live" ELSE "failed",
         backend |-> "native", via |-> via, lib |-> FALSE, ptr |-> PtrUnset,
         held |-> err = "none", err |-> err, cleanups |-> 0]

BackendOf(via) == IF via = "pkg" THEN pkg ELSE "ctypes"

HQuant_init(via, cap, exhausted) ==
    /\ hq.st = "none"
    /\ ~crashed
    /\ via = "pkg" => pkg # "unimported"
    /\ LET isNull == EngineNewIsNull(cap, exhausted)
           obj == IF BackendOf(via) = "ctypes"
                  THEN CtypesInit(via, "h", isNull, "MemoryError")
                  ELSE NativeInit(via, isNull)
           made == IF obj.backend = "ctypes" THEN obj.ptr = "h" ELSE obj.st = "live"
       IN  /\ hq' = obj
           /\ eng' = IF made THEN EngineNew(cap) ELSE eng
           /\ last' = Done("HQuant", <<cap>>, obj.err,
                           IF obj.backend = "ctypes" /\ env.lib = "ok"
                           THEN <<Call("hquant_new", "-", <<cap>>)>> ELSE <<>>,
                           <<>>)
    /\ UNCHANGED <<env, pkg, bt, nbt, poll, crashed, hist>>

FuturesBacktest_init(via, leverage) ==
    /\ bt.st = "none"
    /\ ~crashed
    /\ via = "pkg" => pkg # "unimported"
    /\ LET isNull == BacktestNewIsNull(leverage)
           obj == IF BackendOf(via) = "ctypes"
                  THEN CtypesInit(via, "b", isNull, "ValueError")
                  ELSE NativeInit(via, isNull)
           made == IF obj.backend = "ctypes" THEN obj.ptr = "b" ELSE obj.st = "live"
       IN  /\ bt' = obj
           /\ nbt' = IF made THEN BacktestNew ELSE nbt
           /\ last' = Done("FuturesBacktest", <<leverage>>, obj.err,
                           IF obj.backend = "ctypes" /\ env.lib = "ok"
                           THEN <<Call("hq_backtest_new", "-", <<leverage>>)>> ELSE <<>>,
                           <<>>)
    /\ UNCHANGED <<env, pkg, hq, eng, poll, crashed, hist>>

(***************************************************************************)
(* close and __del__ (api.py 106-115 and 293-302).  native.py defines      *)
(* neither: there the attribute lookup fails.                              *)
(***************************************************************************)
\* `if getattr(self, "_ptr", None):`
CloseFrees_hasattr(p) == p # PtrUnset
CloseFrees(p) == p # PtrUnset /\ p # PtrNone

\* `self._ptr = None`
PtrAfterClose_kept(p) == p
PtrAfterClose(p) == PtrNone

Cleanup(obj) ==
    IF CloseFrees(obj.ptr)
    THEN [obj EXCEPT !.ptr = PtrAfterClose(@), !.cleanups = @ + 1]
    ELSE [obj EXCEPT !.cleanups = @ + 1]

CleanupCalls(obj, fn) ==
    IF CloseFrees(obj.ptr) THEN <<Call(fn, CPtr(obj.ptr), <<>>)>> ELSE <<>>

HQuant_cleanup(op) ==
    /\ hq.st # "none"
    /\ ~crashed
    /\ poll.pc = "idle"
    /\ hq.cleanups < MaxCleanup
    /\ IF hq.backend = "ctypes"
       THEN /\ hq' = Cleanup(hq)
            /\ eng' = IF CloseFrees(hq.ptr) THEN EngineFree(eng) ELSE eng
            /\ last' = Done(op, <<>>, "none", CleanupCalls(hq, "hquant_free"), <<>>)
       ELSE /\ hq.st = "live"
            /\ last' = Done(op, <<>>, "AttributeError", <<>>, <<>>)
            /\ UNCHANGED <<hq, eng>>
    /\ UNCHANGED <<env, pkg, bt, nbt, poll, crashed, hist>>

HQuant_close == HQuant_cleanup("close")

HQuant_del == HQuant_cleanup("__del__")

FuturesBacktest_cleanup(op) ==
    /\ bt.st # "none"
    /\ ~crashed
    /\ poll.pc = "idle"
    /\ bt.cleanups < MaxCleanup
    /\ IF bt.backend = "ctypes"
       THEN /\ bt' = Cleanup(bt)
            /\ nbt' = IF CloseFrees(bt.ptr) THEN EngineFree(nbt) ELSE nbt
            /\ last' = Done(op, <<>>, "none", CleanupCalls(bt, "hq_backtest_free"), <<>>)
       ELSE /\ bt.st = "live"
            /\ last' = Done(op, <<>>, "AttributeError", <<>>, <<>>)
            /\ UNCHANGED <<bt, nbt>>
    /\ UNCHANGED <<env, pkg, hq, eng, poll, crashed, hist>>

FuturesBacktest_close == FuturesBacktest_cleanup("close")

FuturesBacktest_del == FuturesBacktest_cleanup("__del__")

(***************************************************************************)
(* The native engine behind a handle, modelled from the specification      *)
(* (sections 3, 4.3, 4.4, 6): the close column is a ring of `cap` slots,   *)
(* `head` one past the most recently written slot, writes wrapping modulo  *)
(* `cap`; the signal queue is first-in first-out.                          *)
(***************************************************************************)
MkSignal(tag, k) == [strategy_id |-> 1, action |-> tag, timestamp |-> k]

ZeroSignal == [strategy_id |-> 0, action |-> 0, timestamp |-> 0]

NewSignals(e, tags) ==
    IF e.strategies = 0 THEN <<>>
    ELSE [i \in 1..Len(tags) |-> MkSignal(tags[i], e.emitted + i)]

EngineEmit(e, tags) ==
    [e EXCEPT !.queue = @ \o NewSignals(e, tags),
              !.emitted = @ + Len(NewSignals(e, tags))]

EnginePush(e, c) ==
    [e EXCEPT !.buf = [@ EXCEPT ![e.head + 1] = c],
              !.head = (e.head + 1) % e.cap,
              !.len = Min(e.len + 1, e.cap)]

EngineUpdateLast(e, c) ==
    IF e.len = 0 THEN e
    ELSE [e EXCEPT !.buf = [@ EXCEPT ![((e.head + e.cap - 1) % e.cap) + 1] = c]]

\* close_column(handle) -> ColumnView{ptr, capacity, len, head}
EngineCloseColumn(e) ==
    [ptr |-> "mem", capacity |-> e.cap, len |-> e.len, head |-> e.head, mem |-> e.buf]

\* What a call on a NULL handle gives back when the process survives it.
NullColumn == [ptr |-> "NULL", capacity |-> 0, len |-> 0, head |-> 0, mem |-> <<>>]

\* poll_signals(handle, out_buf, out_cap) -> copied: the oldest
\* min(out_cap, queue length) signals are copied out and leave the queue.
EnginePollCount(e, outCap) == Min(outCap, Len(e.queue))

EnginePoll(e, outCap) == [e EXCEPT !.queue = SubSeq(@, EnginePollCount(e, outCap) + 1, Len(@))]

\* The kind tags the engine defines (specification 3: a tag and up to three
\* payload fields); every other 8-bit value is unrecognized.
KnownKinds == 1..3

EngineIndicatorLast(e, id, kind) ==
    [kind |-> kind, a |-> IF id <= e.indicators THEN e.len ELSE 0, b |-> 0, c |-> 0]

(***************************************************************************)
(* History kept for the statements below.                                  *)
(***************************************************************************)
NoHistory == [closes |-> <<>>, produced |-> <<>>, delivered |-> <<>>, quietPolls |-> 0]

\* The engine did something: pushes, updates, registrations, enqueues.
Activity(h) == [h EXCEPT !.quietPolls = 0]

HistPush(h, c, sigs) ==
    [Activity(h) EXCEPT !.closes = Append(@, c), !.produced = @ \o sigs]

HistUpdate(h, c, sigs, had) ==
    [Activity(h) EXCEPT !.closes = IF had THEN [@ EXCEPT ![Len(@)] = c] ELSE @,
                        !.produced = @ \o sigs]

PollBegun(h) == [h EXCEPT !.quietPolls = Min(@ + 1, 2)]

(***************************************************************************)
(* HQuant operations (api.py 156-260, native.py 23-59).                    *)
(***************************************************************************)
HqReady == hq.st = "live" /\ hq.held /\ poll.pc = "idle" /\ ~crashed

\* The ctypes wrapper hands its _ptr to the library as it is.
HqNull == hq.backend = "ctypes" /\ hq.ptr = PtrNone

HqCalls(fn, a) ==
    IF hq.backend = "ctypes" THEN <<Call(fn, CPtr(hq.ptr), a)>>
    ELSE <<Call(fn, "ext", a)>>

HQuant_add_rsi(period, ub) ==
    /\ HqReady
    /\ eng.indicators < MaxIds
    /\ IF HqNull
       THEN /\ crashed' = ub
            /\ last' = Done("add_rsi", <<period>>, "none", HqCalls("hquant_add_rsi", <<period>>), 0)
            /\ UNCHANGED <<eng, hist>>
       ELSE /\ eng' = [eng EXCEPT !.indicators = @ + 1]
            /\ hist' = Activity(hist)
            /\ last' = Done("add_rsi", <<period>>, "none", HqCalls("hquant_add_rsi", <<period>>),
                            eng.indicators + 1)
            /\ UNCHANGED crashed
    /\ UNCHANGED <<env, pkg, hq, bt, nbt, poll>>

HQuant_add_strategy(dslOk, ub) ==
    /\ HqReady
    /\ eng.strategies < MaxIds
    /\ IF HqNull
       THEN /\ crashed' = ub
            /\ last' = Done("add_strategy", <<dslOk>>, "none", HqCalls("hquant_add_strategy", <<>>), 0)
            /\ UNCHANGED <<eng, hist>>
       ELSE /\ eng' = IF dslOk THEN [eng EXCEPT !.strategies = @ + 1] ELSE eng
            /\ hist' = Activity(hist)
            /\ last' = Done("add_strategy", <<dslOk>>, "none", HqCalls("hquant_add_strategy", <<>>),
                            IF dslOk THEN eng.strategies + 1 ELSE 0)
            /\ UNCHANGED crashed
    /\ UNCHANGED <<env, pkg, hq, bt, nbt, poll>>

\* A Python value that may be None: <<>> is None, <<v>> is the number v.
\* api.py 10-18: the Bar dataclass; buy_volume is Optional[float].
Bar(ts, open, high, low, close, volume, buy_volume) ==
    [ts |-> ts, open |-> open, high |-> high, low |-> low, close |-> close,
     volume |-> volume, buy_volume |-> buy_volume]

\* test_e2e.py 34: a bar built from one close, buy_volume left at its 0.0.
MkBar(c) == Bar(0, c, c, c, c, 1, <<0>>)

\* api.py 175-183, 189-197: the _BarC handed to the library by reference.
BarC(bar) ==
    [timestamp |-> bar.ts, open |-> bar.open, high |-> bar.high, low |-> bar.low,
     close |-> bar.close, volume |-> bar.volume,
     buy_volume |-> <<IF bar.buy_volume = <<>> THEN 0 ELSE bar.buy_volume[1]>>]

\* native.py 30-38, 41-49: the arguments handed to the extension.
NativeBarArgs(bar) ==
    [timestamp |-> bar.ts, open |-> bar.open, high |-> bar.high, low |-> bar.low,
     close |-> bar.close, volume |-> bar.volume,
     buy_volume |-> IF bar.buy_volume = <<>> THEN <<>> ELSE <<bar.buy_volume[1]>>]

\* What crosses into native code for one bar.
BarCrossing(bar) == IF hq.backend = "ctypes" THEN BarC(bar) ELSE NativeBarArgs(bar)

HQuant_push_bar(bar, tags, ub) ==
    /\ HqReady
    /\ Len(hist.closes) < MaxPush
    /\ eng.emitted + Len(tags) <= MaxSignals
    /\ IF HqNull
       THEN /\ crashed' = ub
            /\ UNCHANGED <<eng, hist>>
       ELSE /\ eng' = EngineEmit(EnginePush(eng, bar.close), tags)
            /\ hist' = HistPush(hist, bar.close, NewSignals(eng, tags))
            /\ UNCHANGED crashed
    /\ last' = Done("push_bar", <<bar>>, "none",
                    HqCalls("hquant_push_bar", <<BarCrossing(bar)>>), <<>>)
    /\ UNCHANGED <<env, pkg, hq, bt, nbt, poll>>

HQuant_update_last_bar(bar, tags, ub) ==
    /\ HqReady
    /\ eng.emitted + Len(tags) <= MaxSignals
    /\ IF HqNull
       THEN /\ crashed' = ub
            /\ UNCHANGED <<eng, hist>>
       ELSE /\ eng' = EngineEmit(EngineUpdateLast(eng, bar.close), tags)
            /\ hist' = HistUpdate(hist, bar.close, NewSignals(eng, tags), eng.len > 0)
            /\ UNCHANGED crashed
    /\ last' = Done("update_last_bar", <<bar>>, "none",
                    HqCalls("hquant_update_last_bar", <<BarCrossing(bar)>>), <<>>)
    /\ UNCHANGED <<env, pkg, hq, bt, nbt, poll>>

\* api.py 202-204: `return float(v.a)`.  last.arg carries the id passed and
\* the kind tag of the IndicatorValue the library returned.
HQuant_indicator_last(id, kind, ub) ==
    /\ HqReady
    /\ crashed' = (HqNull /\ ub)
    /\ last' = Done("indicator_last", <<id, kind>>, "none", HqCalls("hquant_indicator_last", <<id>>),
                    IF HqNull THEN 0 ELSE EngineIndicatorLast(eng, id, kind).a)
    /\ UNCHANGED <<env, pkg, hq, bt, eng, nbt, poll, hist>>

(***************************************************************************)
(* HQuant.poll_signals (api.py 206-228): the length query and the copy are *)
(* two native calls; the engine may enqueue between them.                  *)
(***************************************************************************)
\* api.py 36: the action field is a c_uint8.
U8Max == 255

\* api.py 215-220: the raw tag is a c_uint8.
DecodeAction_strict(tag) ==
    IF tag % 256 = 1 THEN "BUY" ELSE IF tag % 256 = 2 THEN "SELL"
    ELSE IF tag % 256 = 3 THEN "HOLD" ELSE "UNKNOWN"
DecodeAction(tag) ==
    IF tag % 256 = 1 THEN "BUY" ELSE IF tag % 256 = 2 THEN "SELL" ELSE "HOLD"

DecodeSignal(s) ==
    [strategy_id |-> s.strategy_id, action |-> DecodeAction(s.action), timestamp |-> s.timestamp]

\* api.py 212-228: `for i in range(got)` over the buffer.
PollDecode_short(buf, got) == [i \in 1..(got - 1) |-> DecodeSignal(buf[i])]
PollDecode_all(buf, got) == [i \in 1..Len(buf) |-> DecodeSignal(buf[i])]
PollDecode(buf, got) == [i \in 1..got |-> DecodeSignal(buf[i])]

\* api.py 210-211: the buffer holds n slots and n is the capacity passed.
PollOutCap_one(n) == 1
PollOutCap(n) == n

\* The n-slot buffer after the engine copied `got` signals into it.
PollBuffer(n, q, got) == [i \in 1..n |-> IF i <= got THEN q[i] ELSE ZeroSignal]

\* The extension's poll_signals, from the specification (4.3): the whole
\* queue, decoded 1 -> BUY, 2 -> SELL, 3 -> HOLD.
ExtDecodeAction(tag) ==
    IF tag = 1 THEN "BUY" ELSE IF tag = 2 THEN "SELL" ELSE IF tag = 3 THEN "HOLD" ELSE "UNKNOWN"

ExtPollSignals(q) ==
    [i \in 1..Len(q) |->
        [strategy_id |-> q[i].strategy_id, action |-> ExtDecodeAction(q[i].action),
         timestamp |-> q[i].timestamp]]

\* api.py 207-209: `if n <= 0: return []`, before any buffer exists.
PollReturnsEarly_neg(n) == n < 0
PollReturnsEarly(n) == n <= 0

HQuant_poll_signals_len(ub) ==
    /\ HqReady
    /\ IF hq.backend = "native"
       THEN /\ eng' = [eng EXCEPT !.queue = <<>>]
            /\ hist' = [PollBegun(hist) EXCEPT !.delivered = @ \o ExtPollSignals(eng.queue)]
            /\ last' = Done("poll_signals", <<>>, "none", HqCalls("poll_signals", <<>>),
                            ExtPollSignals(eng.queue))
            /\ UNCHANGED <<poll, crashed>>
       ELSE LET n == IF HqNull THEN 0 ELSE Len(eng.queue)
            IN  /\ crashed' = (HqNull /\ ub)
                /\ hist' = PollBegun(hist)
                /\ poll' = IF PollReturnsEarly(n) THEN poll ELSE [pc |-> "queried", n |-> n]
                /\ last' = Done("poll_signals", <<n>>,
                                IF PollReturnsEarly(n) THEN "none" ELSE "running",
                                HqCalls("hquant_signals_len", <<>>), <<>>)
                /\ UNCHANGED eng
    /\ UNCHANGED <<env, pkg, hq, bt, nbt>>

HQuant_poll_signals_copy ==
    /\ poll.pc = "queried"
    /\ ~crashed
    /\ LET n   == poll.n
           got == EnginePollCount(eng, PollOutCap(n))
           buf == PollBuffer(n, eng.queue, got)
           out == PollDecode(buf, got)
       IN  /\ eng' = EnginePoll(eng, PollOutCap(n))
           /\ hist' = [hist EXCEPT !.delivered = @ \o out]
           /\ last' = Done("poll_signals", <<n, got, Len(eng.queue), buf>>, "none",
                           last.calls \o HqCalls("hquant_poll_signals", <<PollOutCap(n)>>), out)
    /\ poll' = [pc |-> "idle", n |-> 0]
    /\ UNCHANGED <<env, pkg, hq, bt, nbt, crashed>>

\* The engine enqueues a signal on its own thread, possibly while the
\* caller is between the two native calls of poll_signals.
NativeEnqueue(tag) ==
    /\ eng.alive
    /\ ~crashed
    /\ eng.strategies > 0
    /\ eng.emitted < MaxSignals
    /\ eng' = EngineEmit(eng, <<tag>>)
    /\ hist' = [Activity(hist) EXCEPT !.produced = @ \o NewSignals(eng, <<tag>>)]
    /\ UNCHANGED <<env, pkg, hq, bt, nbt, poll, last, crashed>>

\* Another consumer of the same handle takes the oldest queued signal,
\* possibly while the caller is between the two native calls.
NativeTake ==
    /\ eng.alive
    /\ ~crashed
    /\ eng.queue # <<>>
    /\ eng' = [eng EXCEPT !.queue = Tail(@)]
    /\ hist' = Activity(hist)
    /\ UNCHANGED <<env, pkg, hq, bt, nbt, poll, last, crashed>>

(***************************************************************************)
(* The close column (api.py 230-260).  native.py has close_column only.    *)
(***************************************************************************)
\* buf[lo:hi] for 0 <= lo and 0 <= hi: Python clamps hi to the length.
PySlice(buf, lo, hi) == SubSeq(buf, lo + 1, Min(hi, Len(buf)))

AsArray(col) == SubSeq(col.mem, 1, col.capacity)

close_raw(col) == IF col.ptr = "NULL" THEN <<>> ELSE AsArray(col)

close_ordered_slices_nowrap(col) ==
    IF col.ptr = "NULL" \/ col.len = 0 THEN << <<>>, <<>> >>
    ELSE LET start == (col.head + col.capacity - col.len) % col.capacity
         IN  << PySlice(AsArray(col), start, start + col.len), <<>> >>
close_ordered_slices_long(col) ==
    IF col.ptr = "NULL" \/ col.len = 0 THEN << <<>>, <<>> >>
    ELSE LET buf   == AsArray(col)
             start == (col.head + col.capacity - col.len) % col.capacity
             end   == start + col.len
         IN  IF end <= col.capacity
             THEN << PySlice(buf, start, end), PySlice(buf, 0, 0) >>
             ELSE << PySlice(buf, start, Len(buf)), PySlice(buf, 0, end - col.capacity + 1) >>
close_ordered_slices(col) ==
    IF col.ptr = "NULL" \/ col.len = 0 THEN << <<>>, <<>> >>
    ELSE LET buf    == AsArray(col)
             cap    == col.capacity
             length == col.len
             head   == col.head
             start  == (head + cap - length) % cap
             end    == start + length
         IN  IF end <= cap
             THEN << PySlice(buf, start, end), PySlice(buf, 0, 0) >>
             ELSE << PySlice(buf, start, Len(buf)), PySlice(buf, 0, end - cap) >>

\* api.py 241-260 applied to the ColumnView `col` the library returned,
\* whatever engine state it came from.
OrderedSlicesOf(col) ==
    /\ ~crashed
    /\ last' = Done("close_ordered_slices", <<col>>, "none", <<>>, close_ordered_slices(col))
    /\ UNCHANGED <<env, pkg, hq, bt, eng, nbt, poll, crashed, hist>>

HqColumn == IF HqNull THEN NullColumn ELSE EngineCloseColumn(eng)

HQuant_close_raw(ub) ==
    /\ HqReady
    /\ IF hq.backend = "native"
       THEN /\ last' = Done("close_raw", <<>>, "AttributeError", <<>>, <<>>)
            /\ UNCHANGED crashed
       ELSE /\ crashed' = (HqNull /\ ub)
            /\ last' = Done("close_raw", <<>>, "none", HqCalls("hquant_close_column", <<>>),
                            close_raw(HqColumn))
    /\ UNCHANGED <<env, pkg, hq, bt, eng, nbt, poll, hist>>

HQuant_close_ordered_slices(ub) ==
    /\ HqReady
    /\ IF hq.backend = "native"
       THEN /\ last' = Done("close_ordered_slices", <<>>, "AttributeError", <<>>, <<>>)
            /\ UNCHANGED crashed
       ELSE /\ crashed' = (HqNull /\ ub)
            /\ last' = Done("close_ordered_slices", <<>>, "none",
                            HqCalls("hquant_close_column", <<>>), close_ordered_slices(HqColumn))
    /\ UNCHANGED <<env, pkg, hq, bt, eng, nbt, poll, hist>>

(***************************************************************************)
(* FuturesBacktest operations (api.py 263-347, native.py 84-91).           *)
(* A string is a sequence of one-character strings.                        *)
(***************************************************************************)
ACTION_BUY == 1
ACTION_SELL == 2
ACTION_HOLD == 3

LowerLetters == <<"b", "u", "y", "s", "e", "l", "h", "o", "d", "x">>
UpperLetters == <<"B", "U", "Y", "S", "E", "L", "H", "O", "D", "X">>

LetterIndex(tbl, ch) == CHOOSE i \in 1..Len(tbl) : tbl[i] = ch

InTable(tbl, ch) == \E i \in 1..Len(tbl) : tbl[i] = ch

\* str.upper(), one character: lower-case letters change, all else stays.
UpperCh(ch) == IF InTable(LowerLetters, ch) THEN UpperLetters[LetterIndex(LowerLetters, ch)] ELSE ch

Upper(str) == [i \in 1..Len(str) |-> UpperCh(str[i])]

StrBUY == <<"B", "U", "Y">>
StrSELL == <<"S", "E", "L", "L">>
StrHOLD == <<"H", "O", "L", "D">>

\* api.py 317-326; 0 stands for `raise ValueError`.
_action_to_u8_exact(action) ==
    IF action = StrBUY THEN ACTION_BUY
    ELSE IF action = StrSELL THEN ACTION_SELL
    ELSE IF action = StrHOLD THEN ACTION_HOLD
    ELSE 0
_action_to_u8(action) ==
    LET a == Upper(action)
    IN  IF a = StrBUY THEN ACTION_BUY
        ELSE IF a = StrSELL THEN ACTION_SELL
        ELSE IF a = StrHOLD THEN ACTION_HOLD
        ELSE 0

\* The extension's apply_signal, from the specification (4.5): the action
\* is one of BUY, SELL, HOLD, case-insensitive; 0 stands for its error.
LowerCh(ch) == IF InTable(UpperLetters, ch) THEN LowerLetters[LetterIndex(UpperLetters, ch)] ELSE ch

SameWord(str, word) ==
    /\ Len(str) = Len(word)
    /\ \A i \in 1..Len(word) : str[i] = word[i] \/ str[i] = LowerCh(word[i])

ExtActionTag(action) ==
    IF SameWord(action, StrBUY) THEN 1
    ELSE IF SameWord(action, StrSELL) THEN 2
    ELSE IF SameWord(action, StrHOLD) THEN 3
    ELSE 0

\* backtest_apply_signal / backtest_on_price / backtest_result, from the
\* specification (4.5, 6): the engine's bookkeeping is opaque here.
BacktestApply(b, tag) == [b EXCEPT !.applied = Append(@, tag)]

BacktestOnPrice(b, price) == [b EXCEPT !.mark = price]

BacktestResult(b, price) ==
    [equity |-> price + Len(b.applied), profit |-> Len(b.applied), profit_rate |-> 0,
     max_drawdown_rate |-> b.mark, liquidated |-> 0]

NullResult == [equity |-> 0, profit |-> 0, profit_rate |-> 0, max_drawdown_rate |-> 0, liquidated |-> 0]

\* api.py 341-347
ResultDict(r) ==
    [equity |-> r.equity, profit |-> r.profit, profit_rate |-> r.profit_rate,
     max_drawdown_rate |-> r.max_drawdown_rate, liquidated |-> r.liquidated # 0]

BtReady == bt.st = "live" /\ bt.held /\ poll.pc = "idle" /\ ~crashed

BtNull == bt.backend = "ctypes" /\ bt.ptr = PtrNone

BtCalls(fn, a) ==
    IF bt.backend = "ctypes" THEN <<Call(fn, CPtr(bt.ptr), a)>>
    ELSE <<Call(fn, "ext", a)>>

FuturesBacktest_apply_signal(action, price, margin, ub) ==
    /\ BtReady
    /\ Len(nbt.applied) < MaxApply
    /\ LET tag == IF bt.backend = "ctypes" THEN _action_to_u8(action) ELSE ExtActionTag(action)
           raised == tag = 0
           after == IF raised \/ BtNull THEN nbt ELSE BacktestApply(nbt, tag)
       IN  /\ nbt' = after
           /\ crashed' = (~raised /\ BtNull /\ ub)
           /\ last' = Done("apply_signal", action, IF raised THEN "ValueError" ELSE "none",
                           IF raised THEN <<>>
                           ELSE BtCalls("hq_backtest_apply_signal", <<tag, price, margin>>),
                           [before |-> nbt, after |-> after])
    /\ UNCHANGED <<env, pkg, hq, bt, eng, poll, hist>>

FuturesBacktest_on_price(price, ub) ==
    /\ BtReady
    /\ nbt' = IF BtNull THEN nbt ELSE BacktestOnPrice(nbt, price)
    /\ crashed' = (BtNull /\ ub)
    /\ last' = Done("on_price", <<price>>, "none", BtCalls("hq_backtest_on_price", <<price>>), <<>>)
    /\ UNCHANGED <<env, pkg, hq, bt, eng, poll, hist>>

\* api.py 339-347, native.py 90-91: result assigns nothing on self; the
\* handle it passed is the handle it keeps.
PtrAfterResult_cleared(p) == PtrNone
PtrAfterResult(p) == p

FuturesBacktest_result(price, ub) ==
    /\ BtReady
    /\ crashed' = (BtNull /\ ub)
    /\ last' = Done("result", <<price>>, "none", BtCalls("hq_backtest_result", <<price>>),
                    ResultDict(IF BtNull THEN NullResult ELSE BacktestResult(nbt, price)))
    /\ bt' = [bt EXCEPT !.ptr = PtrAfterResult(@)]
    /\ UNCHANGED <<env, pkg, hq, eng, nbt, poll, hist>>

(***************************************************************************)
(* Initial states and the specifications.                                  *)
(***************************************************************************)
Init ==
    /\ env \in [ext : BOOLEAN, lib : {"ok", "noload", "nosym"}]
    /\ pkg = "unimported"
    /\ hq = NoObject
    /\ bt = NoObject
    /\ eng = NoEngine
    /\ nbt = NoBacktest
    /\ poll = [pc |-> "idle", n |-> 0]
    /\ last = Done("none", <<>>, "none", <<>>, <<>>)
    /\ crashed = FALSE
    /\ hist = NoHistory

Vias == {"pkg", "api"}

\* Strings handed to apply_signal.
Words == {StrBUY, StrSELL, StrHOLD}

RECURSIVE CaseVariants(_)
CaseVariants(word) ==
    IF word = <<>> THEN {<<>>}
    ELSE {<<ch>> \o rest : ch \in {word[1], LowerCh(word[1])}, rest \in CaseVariants(Tail(word))}

OtherStrings ==
    {<<>>, <<"B", "U">>, <<"b", "u", "y", "s">>, <<"X", "U", "Y">>, <<"s", "e", "l", "x">>,
     <<"H", "O", "D", "L">>, <<"l", "l", "e", "s">>}

ActionStrings == UNION {CaseVariants(w) : w \in Words} \cup OtherStrings

TagSeqs == {<<>>} \cup {<<t>> : t \in RawTags}

\* The life of both wrappers: import, construction, use, close, finalizer.
Next ==
    \/ ImportPackage
    \/ \E via \in Vias, cap \in {0, 1}, exhausted \in BOOLEAN : HQuant_init(via, cap, exhausted)
    \/ \E via \in Vias, lev \in Leverages : FuturesBacktest_init(via, lev)
    \/ HQuant_close
    \/ HQuant_del
    \/ FuturesBacktest_close
    \/ FuturesBacktest_del
    \/ \E ub \in BOOLEAN : HQuant_push_bar(MkBar(1), <<>>, ub)
    \/ \E ub \in BOOLEAN : HQuant_poll_signals_len(ub)
    \/ \E a \in {StrBUY, <<"X", "U", "Y">>}, ub \in BOOLEAN : FuturesBacktest_apply_signal(a, 1, 1, ub)
    \/ \E ub \in BOOLEAN : FuturesBacktest_result(1, ub)

Spec == Init /\ [][Next]_vars

\* One HQuant object and every operation of the class, before and after close.
NextHQuant ==
    \/ ImportPackage
    \/ \E via \in Vias, cap \in {0, 1}, exhausted \in BOOLEAN : HQuant_init(via, cap, exhausted)
    \/ HQuant_close
    \/ HQuant_del
    \/ \E ub \in BOOLEAN : HQuant_add_rsi(1, ub)
    \/ \E ok \in BOOLEAN, ub \in BOOLEAN : HQuant_add_strategy(ok, ub)
    \/ \E c \in Closes, ub \in BOOLEAN : HQuant_push_bar(MkBar(c), <<>>, ub)
    \/ \E c \in Closes, ub \in BOOLEAN : HQuant_update_last_bar(MkBar(c), <<>>, ub)
    \/ \E id \in {1, 2}, kind \in {1, 255}, ub \in BOOLEAN : HQuant_indicator_last(id, kind, ub)
    \/ \E ub \in BOOLEAN : HQuant_poll_signals_len(ub)
    \/ \E ub \in BOOLEAN : HQuant_close_raw(ub)
    \/ \E ub \in BOOLEAN : HQuant_close_ordered_slices(ub)

SpecHQuant == Init /\ [][NextHQuant]_vars

\* The close column: every capacity, pushes past the wrap, updates, views.
NextRing ==
    \/ \E cap \in Capacities, exhausted \in BOOLEAN : HQuant_init("api", cap, exhausted)
    \/ \E c \in Closes : HQuant_push_bar(MkBar(c), <<>>, FALSE)
    \/ \E c \in Closes : HQuant_update_last_bar(MkBar(c), <<>>, FALSE)
    \/ HQuant_close_raw(FALSE)
    \/ HQuant_close_ordered_slices(FALSE)

SpecRing == Init /\ [][NextRing]_vars

\* The signal queue: a strategy, pushes that emit signals, the engine
\* enqueueing on its own, and the two steps of poll_signals.
NextSignals ==
    \/ HQuant_init("api", 1, FALSE)
    \/ \E ok \in BOOLEAN : HQuant_add_strategy(ok, FALSE)
    \/ \E tags \in TagSeqs : HQuant_push_bar(MkBar(1), tags, FALSE)
    \/ \E tag \in RawTags : NativeEnqueue(tag)
    \/ HQuant_poll_signals_len(FALSE)
    \/ HQuant_poll_signals_copy

SpecSignals == Init /\ [][NextSignals]_vars

\* The signal queue with a second consumer: the count the copy returns can
\* be smaller than the length queried before it.
NextPollRace ==
    \/ HQuant_init("api", 1, FALSE)
    \/ HQuant_add_strategy(TRUE, FALSE)
    \/ \E tag \in RawTags : NativeEnqueue(tag)
    \/ NativeTake
    \/ HQuant_poll_signals_len(FALSE)
    \/ HQuant_poll_signals_copy

SpecPollRace == Init /\ [][NextPollRace]_vars

\* The signal queue fed with raw tags up to the largest 8-bit value.
NextTags ==
    \/ HQuant_init("api", 1, FALSE)
    \/ HQuant_add_strategy(TRUE, FALSE)
    \/ \E tag \in RawTags \cup {U8Max} : NativeEnqueue(tag)
    \/ HQuant_poll_signals_len(FALSE)
    \/ HQuant_poll_signals_copy

SpecTags == Init /\ [][NextTags]_vars

\* One FuturesBacktest object read by result between its other calls.
NextResult ==
    \/ ImportPackage
    \/ \E via \in Vias : FuturesBacktest_init(via, 1)
    \/ FuturesBacktest_close
    \/ \E a \in {StrBUY, StrSELL}, ub \in BOOLEAN : FuturesBacktest_apply_signal(a, 1, 1, ub)
    \/ \E p \in ResultPrices, ub \in BOOLEAN : FuturesBacktest_on_price(p, ub)
    \/ \E p \in ResultPrices, ub \in BOOLEAN : FuturesBacktest_result(p, ub)

SpecResult == Init /\ [][NextResult]_vars

\* Bars with and without a buy_volume, under either backend.
BuyVolumes == {<<>>, <<0>>, <<3>>}
Bars == {Bar(7, 1, 2, 1, c, 5, bv) : c \in Closes, bv \in BuyVolumes}

NextBars ==
    \/ ImportPackage
    \/ \E via \in Vias : HQuant_init(via, 1, FALSE)
    \/ \E bar \in Bars : HQuant_push_bar(bar, <<>>, FALSE)
    \/ \E bar \in Bars : HQuant_update_last_bar(bar, <<>>, FALSE)

SpecBars == Init /\ [][NextBars]_vars

\* Library resolution on its own: every platform, environment and
\* lib_path argument.
Platforms ==
    {PlatDarwin, PlatLinux, PlatLinux \o <<"2">>, PlatWin32,
     <<"c", "y", "g", "w", "i", "n">>, <<"f", "r", "e", "e", "b", "s", "d", "1", "4">>}
OptionalPaths == {<<>>, <<"">>, <<"/opt/hq/libhquant_rs.so">>, <<"./custom.so">>}

InitLoad ==
    /\ env \in [ext : {FALSE}, lib : {"ok", "noload"}, platform : Platforms,
                 HQUANT_RS_LIB : OptionalPaths]
    /\ pkg = "unimported"
    /\ hq = NoObject
    /\ bt = NoObject
    /\ eng = NoEngine
    /\ nbt = NoBacktest
    /\ poll = [pc |-> "idle", n |-> 0]
    /\ last = Done("none", <<>>, "none", <<>>, <<>>)
    /\ crashed = FALSE
    /\ hist = NoHistory

NextLoad == \E path \in OptionalPaths : LoadLib(path)

SpecLoad == InitLoad /\ [][NextLoad]_vars

\* Every well-formed ColumnView up to MaxCap, and the empty ones of
\* capacity 0; slot i of the memory holds its own index i.
ColumnViews ==
    {[ptr |-> p, capacity |-> C, len |-> L, head |-> H, mem |-> [i \in 1..C |-> i - 1]] :
        p \in {"mem", "NULL"}, C \in 1..MaxCap, L \in 0..MaxCap, H \in 0..(MaxCap - 1)}

WellFormedViews == {col \in ColumnViews : col.len <= col.capacity /\ col.head < col.capacity}

EmptyViews ==
    {[ptr |-> p, capacity |-> 0, len |-> 0, head |-> 0, mem |-> <<>>] : p \in {"mem", "NULL"}}

NextColumn == \E col \in WellFormedViews \cup EmptyViews : OrderedSlicesOf(col)

SpecColumn == Init /\ [][NextColumn]_vars

\* One FuturesBacktest object under either backend, every action string.
NextBacktest ==
    \/ ImportPackage
    \/ \E via \in Vias, lev \in Leverages : FuturesBacktest_init(via, lev)
    \/ FuturesBacktest_close
    \/ FuturesBacktest_del
    \/ \E a \in ActionStrings, ub \in BOOLEAN : FuturesBacktest_apply_signal(a, 1, 1, ub)
    \/ \E p \in Prices, ub \in BOOLEAN : FuturesBacktest_on_price(p, ub)
    \/ \E p \in Prices, ub \in BOOLEAN : FuturesBacktest_result(p, ub)

SpecBacktest == Init /\ [][NextBacktest]_vars

(***************************************************************************)
(* Statements checked against the model.                                   *)
(***************************************************************************)
Built(obj) == obj.backend = "ctypes" /\ obj.err = "none" /\ obj.st = "live"

ReleasedOnce(obj, native) ==
    Built(obj) =>
        /\ native.freeCalls = (IF obj.cleanups > 0 THEN 1 ELSE 0)
        /\ obj.cleanups > 0 => obj.ptr = PtrNone

\* C1: for a successfully constructed HQuant or FuturesBacktest (api.py),
\* whatever number of close() calls and __del__ runs happened, the native
\* free function was invoked once if there was any cleanup request and
\* never otherwise; a second or later request releases nothing.
C1_ExactlyOneRelease == ReleasedOnce(hq, eng) /\ ReleasedOnce(bt, nbt)

\* A finalizer run after an explicit close, on both objects.
C1_Witness ==
    /\ Built(hq) /\ hq.cleanups >= 2 /\ eng.freeCalls = 1
    /\ Built(bt) /\ bt.cleanups >= 2 /\ nbt.freeCalls = 1
    /\ last.op = "__del__" /\ last.calls = <<>>

HQuantOps ==
    {"push_bar", "update_last_bar", "add_rsi", "add_strategy", "indicator_last",
     "poll_signals", "close_raw", "close_ordered_slices"}

\* C2 (as claimed): an operation called on a handle after close() fails
\* with a precondition error and passes no released or NULL handle to the
\* library.
C2_UseAfterCloseRejected ==
    (Built(hq) /\ hq.cleanups > 0 /\ last.op \in HQuantOps) =>
        /\ last.err = "PreconditionError"
        /\ \A i \in 1..Len(last.calls) : last.calls[i].ptr # "NULL"

LastN(seq, n) == SubSeq(seq, Len(seq) - n + 1, Len(seq))

\* C3: the two slices close_ordered_slices returns, concatenated, are the
\* closes of the last min(N, capacity) bars the engine holds, oldest first,
\* for N below, at and above the capacity.
C3_OrderedView ==
    (last.op = "close_ordered_slices" /\ last.err = "none" /\ eng.alive) =>
        last.out[1] \o last.out[2] = LastN(hist.closes, Min(Len(hist.closes), eng.cap))

\* The ring has wrapped and the view comes back in two non-empty pieces.
C3_Witness ==
    /\ last.op = "close_ordered_slices"
    /\ Len(hist.closes) > eng.cap
    /\ last.out[1] # <<>>
    /\ last.out[2] # <<>>
    /\ last.out[1] \o last.out[2] # eng.buf

\* C4: every signal the engine produced is either still queued or was
\* returned exactly once, and the returned ones followed by the queued ones
\* are the produced ones in production order, also when the engine enqueues
\* between the length query and the copy of one call.
C4_ExactlyOnce ==
    /\ Len(hist.delivered) + Len(eng.queue) = Len(hist.produced)
    /\ \A i \in 1..Len(hist.delivered) :
          /\ hist.delivered[i].timestamp = hist.produced[i].timestamp
          /\ hist.delivered[i].strategy_id = hist.produced[i].strategy_id
    /\ \A j \in 1..Len(eng.queue) :
          Len(hist.delivered) + j <= Len(hist.produced)
          /\ eng.queue[j] = hist.produced[Len(hist.delivered) + j]

\* A call returned signals while the queue had grown between its two native
\* calls; the newer signals are still queued.
C4_Witness ==
    /\ last.op = "poll_signals" /\ last.err = "none"
    /\ Len(last.arg) = 4
    /\ last.arg[3] > last.arg[1]
    /\ Len(last.out) = last.arg[1]
    /\ eng.queue # <<>>

\* C5: a poll_signals call that began when the previous poll_signals call
\* had begun after the engine's last activity (no push, update,
\* registration or enqueue since) returns an empty sequence.
C5_SecondPollEmpty ==
    (last.op = "poll_signals" /\ last.err = "none" /\ hist.quietPolls = 2) =>
        last.out = <<>>

\* Two calls in a row after signals were produced: all were delivered by
\* the first, the second came back empty.
C5_Witness ==
    /\ last.op = "poll_signals" /\ last.err = "none" /\ hist.quietPolls = 2
    /\ Len(hist.delivered) >= 2
    /\ Len(hist.delivered) = Len(hist.produced)

ExpectedTag(action) ==
    IF action \in CaseVariants(StrBUY) THEN 1
    ELSE IF action \in CaseVariants(StrSELL) THEN 2
    ELSE IF action \in CaseVariants(StrHOLD) THEN 3
    ELSE 0

ViaPackage(obj) == obj.st # "none" /\ obj.via = "pkg"

\* C7 (as claimed): with the extension module absent, an object constructed
\* through the package is built by the ctypes strategy.
C7_FallsBackToCtypes ==
    /\ (ViaPackage(hq) /\ ~env.ext) => hq.backend = "ctypes"
    /\ (ViaPackage(bt) /\ ~env.ext) => bt.backend = "ctypes"

NullReturned(obj) == obj.backend = "ctypes" /\ obj.ptr = PtrNone /\ obj.cleanups = 0

\* C8: when the native constructor returned NULL the ctypes constructor
\* raised (MemoryError for HQuant, ValueError for FuturesBacktest) and the
\* caller holds no object; an object the caller obtained from a constructor
\* holds the address the library returned.
C8_NullIsTypedError ==
    /\ NullReturned(hq) => (~hq.held /\ hq.st = "failed" /\ hq.err = "MemoryError")
    /\ NullReturned(bt) => (~bt.held /\ bt.st = "failed" /\ bt.err = "ValueError")
    /\ (hq.backend = "ctypes" /\ hq.held /\ hq.cleanups = 0) => hq.ptr = "h"
    /\ (bt.backend = "ctypes" /\ bt.held /\ bt.cleanups = 0) => bt.ptr = "b"

\* Both native constructors returned NULL.
C8_Witness ==
    /\ NullReturned(hq) /\ hq.err = "MemoryError"
    /\ NullReturned(bt) /\ bt.err = "ValueError"
    /\ env.lib = "ok"

\* C9: after a constructor that failed (library not loaded, symbol not
\* bound, NULL returned, extension missing), no close() and no __del__ on
\* the object invokes the native free function.
C9_FailedNeverReleases ==
    /\ hq.st = "failed" => eng.freeCalls = 0
    /\ bt.st = "failed" => nbt.freeCalls = 0

\* close() and __del__ both ran on an HQuant whose native constructor
\* returned NULL and on a FuturesBacktest that failed.
C9_Witness ==
    /\ hq.st = "failed" /\ hq.ptr = PtrNone /\ hq.cleanups >= 2
    /\ bt.st = "failed" /\ bt.cleanups >= 1

\* C10 (as claimed): a signal is returned as BUY, SELL or HOLD only when its
\* raw tag was 1, 2 or 3 respectively.
C10_UnknownTagIsError ==
    \A i \in 1..Len(hist.delivered) :
        i <= Len(hist.produced) =>
            /\ hist.delivered[i].action = "BUY" => hist.produced[i].action = 1
            /\ hist.delivered[i].action = "SELL" => hist.produced[i].action = 2
            /\ hist.delivered[i].action = "HOLD" => hist.produced[i].action = 3

\* A poll_signals call of the ctypes wrapper that went through the copy:
\* last.arg is <<n, got, queue length at the copy, the n-slot buffer>>.
PollCopied == last.op = "poll_signals" /\ last.err = "none" /\ Len(last.arg) = 4

\* C11: for a queried length n and a returned count g, poll_signals returns
\* exactly g entries, entry i decoded from buffer slot i in order; the slots
\* from g on are not decoded and the buffer has no slot beyond n.
C11_ReadsOnlyReturned ==
    PollCopied =>
        LET n   == last.arg[1]
            g   == last.arg[2]
            buf == last.arg[4]
        IN  /\ Len(buf) = n
            /\ g <= n
            /\ Len(last.out) = g
            /\ \A i \in 1..g : last.out[i] = DecodeSignal(buf[i])

\* The copy returned fewer signals than the length queried, and at least one.
C11_Witness ==
    /\ PollCopied
    /\ last.arg[2] >= 1
    /\ last.arg[2] < last.arg[1]

\* A poll_signals call of the ctypes wrapper that returned after the
\* length query: last.arg is <<n>>.
PollReturnedEarly == last.op = "poll_signals" /\ last.err = "none" /\ Len(last.arg) = 1

\* C12: when the queried length is zero, poll_signals returns the empty
\* sequence after the length query alone: the only native call made is
\* hquant_signals_len, no buffer was built, and the queue is as it was
\* (still empty while the engine stays quiet); the copy is called only for
\* a positive length.
C12_EmptyQueueOnlyQueried ==
    /\ PollReturnedEarly =>
            /\ last.arg[1] = 0
            /\ last.out = <<>>
            /\ Len(last.calls) = 1
            /\ last.calls[1].fn = "hquant_signals_len"
            /\ (eng.alive /\ hist.quietPolls >= 1) => eng.queue = <<>>
    /\ PollCopied => last.arg[1] > 0

\* poll_signals returned early on a live engine with a strategy, after an
\* earlier poll had drained signals.
C12_Witness ==
    /\ PollReturnedEarly
    /\ hq.st = "live" /\ eng.alive /\ eng.strategies > 0
    /\ hist.delivered # <<>>
    /\ eng.queue = <<>>

\* A step that is one call of FuturesBacktest.result.
ResultStep == \E p \in ResultPrices, ub \in BOOLEAN : FuturesBacktest_result(p, ub)

C14_BuyVolumeMaterialized ==
    (last.op \in {"push_bar", "update_last_bar"} /\ last.err = "none") =>
        LET bar == last.arg[1]
            w   == last.calls[1].arg[1]
        IN  /\ w.buy_volume = <<IF bar.buy_volume = <<>> THEN 0 ELSE bar.buy_volume[1]>>
            /\ w.timestamp = bar.ts
            /\ w.open = bar.open /\ w.high = bar.high /\ w.low = bar.low
            /\ w.close = bar.close /\ w.volume = bar.volume

\* The one library load a resolution ended in.
LoadedFrom(name) ==
    /\ last.calls = <<Call("CDLL", "-", <<name>>)>>
    /\ last.err \in {"none", "OSError"}

\* The override in force: the lib_path argument when it is not None, else
\* the HQUANT_RS_LIB environment variable.
OverridePath == IF last.arg[1] # <<>> THEN last.arg[1] ELSE env.HQUANT_RS_LIB

\* C15: library resolution loads the override path when one is given,
\* otherwise the platform's default file name; on a platform that is none
\* of darwin, linux and win32 it raises before any load is attempted.
C15_LibraryResolution ==
    last.op = "_load_lib" =>
        IF OverridePath \notin {<<>>, <<"">>} THEN LoadedFrom(OverridePath[1])
        ELSE IF env.platform = PlatDarwin THEN LoadedFrom("libhquant_rs.dylib")
        ELSE IF env.platform \in {PlatLinux, PlatLinux \o <<"2">>} THEN LoadedFrom("libhquant_rs.so")
        ELSE IF env.platform = PlatWin32 THEN LoadedFrom("hquant_rs.dll")
        ELSE last.err = "RuntimeError" /\ last.calls = <<>>

\* Resolution without any override on an unsupported platform.
C15_Witness ==
    /\ last.op = "_load_lib"
    /\ last.arg[1] = <<>> /\ env.HQUANT_RS_LIB = <<>>
    /\ env.platform \notin {PlatDarwin, PlatLinux, PlatLinux \o <<"2">>, PlatWin32}
    /\ last.err = "RuntimeError"

\* C16 (as claimed): when the library returns an IndicatorValue whose kind
\* tag is not a recognized discriminant, indicator_last of the ctypes
\* wrapper raises a decoding error instead of returning a payload field.
C16_UnknownKindIsError ==
    (/\ last.op = "indicator_last"
     /\ hq.backend = "ctypes" /\ ~HqNull
     /\ last.arg[2] \notin KnownKinds) => last.err = "DecodingError"

\* What the claim says a raw tag is returned as.
ClaimedAction(tag) == IF tag = 1 THEN "BUY" ELSE IF tag = 2 THEN "SELL" ELSE "HOLD"

\* C17: every signal poll_signals returned has its action in BUY, SELL,
\* HOLD: BUY for raw tag 1, SELL for 2, HOLD for every other tag, and
\* poll_signals raised nothing; the same mapping holds of the decoding for
\* each of the 256 values of the 8-bit tag.
C17_EveryTagDecodes ==
    /\ \A i \in 1..Len(hist.delivered) :
            /\ hist.delivered[i].action \in {"BUY", "SELL", "HOLD"}
            /\ i <= Len(hist.produced) =>
                    hist.delivered[i].action = ClaimedAction(hist.produced[i].action)
    /\ last.op = "poll_signals" => last.err \in {"none", "running"}
    /\ \A tag \in 0..U8Max : DecodeAction(tag) = ClaimedAction(tag)

\* One poll returned a genuine HOLD (tag 3) and an unmapped tag (0 or
\* 255), both as HOLD.
C17_Witness ==
    /\ PollCopied
    /\ \E i, j \in 1..Len(last.out) :
            /\ last.arg[4][i].action = 3
            /\ last.arg[4][j].action \in {0, U8Max}
            /\ last.out[i].action = "HOLD"
            /\ last.out[j].action = "HOLD"

\* The slots a segment is made of, and whether they are consecutive.
Slots(seg) == {seg[i] : i \in 1..Len(seg)}

Consecutive(seg) == \A i \in 1..(Len(seg) - 1) : seg[i + 1] = seg[i] + 1

\* close_ordered_slices answered for a given ColumnView.
SlicedView == last.op = "close_ordered_slices" /\ last.err = "none" /\ Len(last.arg) = 1

\* C18: for a ColumnView with capacity C > 0, 0 <= L <= C and 0 <= H < C
\* the two segments are runs of consecutive slots inside [0, C), share no
\* slot, have L slots together, the first starting at (H + C - L) mod C,
\* and the second is non-empty only when start + L > C; for L = 0 or a null
\* pointer both are empty, capacity 0 included.
C18_SegmentsPartition ==
    SlicedView =>
        LET col   == last.arg[1]
            older == last.out[1]
            newer == last.out[2]
        IN  IF col.ptr = "NULL" \/ col.len = 0
            THEN older = <<>> /\ newer = <<>>
            ELSE LET start == (col.head + col.capacity - col.len) % col.capacity
                 IN  /\ Slots(older) \cup Slots(newer) \subseteq 0..(col.capacity - 1)
                     /\ Consecutive(older) /\ Consecutive(newer)
                     /\ Slots(older) \cap Slots(newer) = {}
                     /\ Len(older) + Len(newer) = col.len
                     /\ older # <<>> /\ older[1] = start
                     /\ newer # <<>> => (start + col.len > col.capacity /\ newer[1] = 0)
                     /\ start + col.len > col.capacity => newer # <<>>

\* A full view whose oldest value is in the middle of the memory: both
\* segments are non-empty.
C18_Witness ==
    /\ SlicedView
    /\ last.arg[1].capacity = 3 /\ last.arg[1].len = 3 /\ last.arg[1].head = 2
    /\ last.out = << <<2>>, <<0, 1>> >>

====
